---- MODULE Spec2Model ----
(***************************************************************************)
(* Model of the asynchronous logger of ahmedsat/bayaan (the queued         *)
(* implementation: Logger, its worker goroutine, log, With, Close, the     *)
(* LoggerOption functions, and the package-level functions that work on    *)
(* defaultLogger: Setup, SetLevel, GetLevel, Close and the leveled calls).  *)
(*                                                                         *)
(* Heap objects (Fields maps, channels) are modelled by identity: a Logger *)
(* holds the index of its fields map in fieldMaps and the indexes of its   *)
(* channels, so that sharing and copying are distinguishable.              *)
(***************************************************************************)
EXTENDS Integers, Sequences, FiniteSets, TLC

(* ------------------------------ levels -------------------------------- *)
LoggerLevelTrace == 0
LoggerLevelDebug == 1
LoggerLevelInfo == 2
LoggerLevelWarn == 3
LoggerLevelError == 4
LoggerLevelFatal == 5
LoggerLevelPanic == 6
LoggerLevelsCount == 7

LevelString(l) ==
    <<"TRACE", "DEBUG", "INFO", "WARN", "ERROR", "FATAL", "PANIC">>[l + 1]

colors(l) ==
    <<"\\033[36m", "\\033[34m", "\\033[32m", "\\033[33m",
      "\\033[31m", "\\033[35m", "\\033[95m">>[l + 1]

Reset == "\\033[0m"

(* ------------------------------ bounds -------------------------------- *)
\* capacity of logChan; the program uses 1000, the model a small capacity
ChanCap == 2
\* number of leveled calls in one behaviour
MaxCalls == 4
\* number of leveled calls in the behaviours that also derive Loggers, and
\* in those where the callers write to the maps they passed
MaxQueueCalls == 3
\* number of leveled calls in the behaviours that also apply options
MaxConfigCalls == 1
\* number of With calls, of options applied after construction, and of
\* Close calls in one behaviour
MaxWith == 1
MaxOptions == 1
MaxCloses == 2
\* number of leveled calls in the behaviours that show the lock
MaxLockCalls == 2
\* number of Setup calls, of SetLevel calls and of package-level leveled
\* calls in one behaviour
MaxSetups == 2
MaxSetLevels == 1
MaxGlobalCalls == 2
\* number of package-level Close calls in the behaviours that call Setup
MaxGlobalCloses == 1

(* ------------------------------ inputs -------------------------------- *)
EmptyFields == [k \in {} |-> 0]
\* the Fields maps the callers own and pass to log, With and WithFields
CallerMaps == << [k \in {"x"} |-> 2], [k \in {"a"} |-> 1] >>
CallerMapIds == 1..Len(CallerMaps)
\* the leveled calls made: the level method and the Fields map passed
CallInputs == { <<LoggerLevelInfo, 1>>, <<LoggerLevelDebug, 2>> }
InitLevels == {LoggerLevelInfo}
OptLevels == {LoggerLevelDebug, LoggerLevelWarn}
InitFields == {[k \in {"x"} |-> 1]}
Stdout == "os.Stdout"
Capture == "capture"
Writers == {Stdout, Capture}
\* the WithOutput options applied: writer, additive, useColor
OptOutputs == { <<Capture, TRUE, TRUE>>, <<Stdout, FALSE, FALSE>> }
DefaultTimeFormat == "2006-01-02 15:04:05"
OtherTimeFormat == "15:04:05"

NilChan == 0
Root == 1
\* var defaultLogger *Logger
NilLogger == 0
NoSetup == [pc |-> "idle", target |-> NilLogger]
NoGet == -1
NoOption == <<>>

VARIABLES
    loggers,    \* sequence of Logger objects, by identity
    fieldMaps,  \* heap of Fields maps, by identity
    chans,      \* logChan channels: [buf, closed]
    dones,      \* done channels: TRUE when closed
    worker,     \* worker goroutine of each Logger made by NewLogger
    sinks,      \* what each writer has received, in order
    stderr,     \* messages of the drop diagnostics written to os.Stderr
    calls,      \* history of the leveled calls; a call's msg is its index
    processed,  \* history of the entries writeLog has finished with
    closers,    \* the Close calls: [logger, pc]
    proc,       \* "running", or the site of the panic that ended the process
    nopts,      \* number of options applied after construction
    defaultLogger, \* the package variable: a Logger, or NilLogger
    setup,      \* the Setup call in progress: [pc, target]
    gops,       \* number of Setup and of SetLevel calls made
    lastGet,    \* what the last GetLevel call returned
    mu,         \* holders of the Loggers' RWMutex: <<logger, holder>>
    pending     \* the option that is inside its critical section

\* the package-level state and the state of the locks
facade == <<defaultLogger, setup, gops, lastGet>>
locks == <<mu, pending>>

vars == <<loggers, fieldMaps, chans, dones, worker, sinks, stderr, calls,
          processed, closers, proc, nopts, facade, locks>>

NoEntry == [level |-> 0, msg |-> 0, fields |-> 0]

(* ------------------------------ helpers ------------------------------- *)

\* the orders in which a range over a Go map may visit its keys
Orderings(S) ==
    {s \in [1..Cardinality(S) -> S] : \A k \in S : \E i \in DOMAIN s : s[i] = k}

\* for k, v := range over { base[k] = v }
Merge(base, over) ==
    [k \in (DOMAIN base) \cup (DOMAIN over) |->
        IF k \in DOMAIN over THEN over[k] ELSE base[k]]

\* the "k: v " items written for one map, in visiting order ord
Items(m, ord) == [i \in DOMAIN ord |-> <<ord[i], m[ord[i]]>>]

\* make(chan logEntry, 1000): a send finds no room
ChanFull(c) == Len(chans[c].buf) >= ChanCap

\* variant: an entry at the Logger's level is filtered too
BelowOrAtLevel(e, lv) == e.level <= lv

\* entry.level < l.level: writeLog returns without output
BelowLevel(e, lv) == e.level < lv

\* variant: the loop ends as soon as the channel is closed
RangeEndedOnClose(c) == chans[c].closed

\* for entry := range l.logChan ends: the channel is closed and drained
RangeEnded(c) == chans[c].closed /\ chans[c].buf = <<>>

\* variant: the receive yields the entry sent last
RecvNewest(c) ==
    [entry |-> chans[c].buf[Len(chans[c].buf)],
     rest |-> SubSeq(chans[c].buf, 1, Len(chans[c].buf) - 1)]

\* a receive on the channel: the entry it yields and what stays buffered
Recv(c) == [entry |-> Head(chans[c].buf), rest |-> Tail(chans[c].buf)]

\* the process runs: no goroutine has panicked
Running == proc = "running"

\* l.mu is held by a writer (an option), by a reader
WriteLocked(l) == <<l, "option">> \in mu
ReadLocked(l) == \E h \in mu : h[1] = l /\ h[2] # "option"

\* l.mu.RLock() by goroutine who
RLock(m, l, who) == m \cup {<<l, who>>}

\* variant: the read lock is released when writeLog returns
RUnlockDeferred(m, l, who) == m

\* l.mu.RUnlock() by goroutine who
RUnlock(m, l, who) == m \ {<<l, who>>}

(* ------------------------------ NewLogger ----------------------------- *)
\* NewLogger(WithFields(f), WithOutput(capture, true, false)): the Logger,
\* its two channels and its worker, about to receive
Init ==
    \E lv \in InitLevels, f \in InitFields,
       outs \in { <<[writer |-> Stdout, useColor |-> TRUE],
                    [writer |-> Capture, useColor |-> FALSE]>> } :
        /\ fieldMaps = Append(CallerMaps, f)
        /\ loggers = << [level |-> lv, outputs |-> outs,
                         timeFormat |-> DefaultTimeFormat,
                         fields |-> Len(CallerMaps) + 1,
                         logChan |-> 1, done |-> 1] >>
        /\ chans = << [buf |-> <<>>, closed |-> FALSE] >>
        /\ dones = << FALSE >>
        /\ worker = (Root :> [pc |-> "recv", entry |-> NoEntry, lvlRead |-> 0,
                              defaultFields |-> EmptyFields, outputs |-> <<>>])
        /\ sinks = [w \in Writers |-> <<>>]
        /\ stderr = <<>>
        /\ calls = <<>>
        /\ processed = <<>>
        /\ closers = <<>>
        /\ proc = "running"
        /\ nopts = 0
        /\ defaultLogger = NilLogger
        /\ setup = NoSetup
        /\ gops = [setup |-> 0, setLevel |-> 0]
        /\ lastGet = NoGet
        /\ mu = {}
        /\ pending = NoOption

(* ------------------------------ options ------------------------------- *)
WithLevel(l, level) ==
    /\ Running /\ nopts < MaxOptions
    /\ loggers' = [loggers EXCEPT ![l].level = level]
    /\ nopts' = nopts + 1
    /\ UNCHANGED <<fieldMaps, chans, dones, worker, sinks, stderr, calls,
                   processed, closers, proc>>
    /\ UNCHANGED <<facade, locks>>

WithOutput(l, writer, additive, useColor) ==
    /\ Running /\ nopts < MaxOptions
    /\ loggers' = [loggers EXCEPT ![l].outputs =
            IF additive
            THEN Append(@, [writer |-> writer, useColor |-> useColor])
            ELSE <<[writer |-> writer, useColor |-> useColor]>>]
    /\ nopts' = nopts + 1
    /\ UNCHANGED <<fieldMaps, chans, dones, worker, sinks, stderr, calls,
                   processed, closers, proc>>
    /\ UNCHANGED <<facade, locks>>

WithTimeFormat(l, format) ==
    /\ Running /\ nopts < MaxOptions
    /\ loggers' = [loggers EXCEPT ![l].timeFormat = format]
    /\ nopts' = nopts + 1
    /\ UNCHANGED <<fieldMaps, chans, dones, worker, sinks, stderr, calls,
                   processed, closers, proc>>
    /\ UNCHANGED <<facade, locks>>

\* writes the keys of the caller's map f into the map l.fields refers to
WithFields(l, f) ==
    /\ Running /\ nopts < MaxOptions
    /\ fieldMaps' = [fieldMaps EXCEPT ![loggers[l].fields] =
                        Merge(@, fieldMaps[f])]
    /\ nopts' = nopts + 1
    /\ UNCHANGED <<loggers, chans, dones, worker, sinks, stderr, calls,
                   processed, closers, proc>>
    /\ UNCHANGED <<facade, locks>>

\* the options applied after construction, as the field written and the
\* value given
OptionInputs ==
    {<<"level", lv>> : lv \in OptLevels}
        \cup {<<"outputs", o>> : o \in OptOutputs}
        \cup {<<"timeFormat", OtherTimeFormat>>}
        \cup {<<"fields", f>> : f \in CallerMapIds}

\* an option applied to Logger l, up to l.mu.Lock()
OptionLock(l, o) ==
    /\ Running /\ nopts < MaxOptions /\ pending = NoOption
    /\ ~WriteLocked(l) /\ ~ReadLocked(l)
    /\ mu' = mu \cup {<<l, "option">>}
    /\ pending' = <<l, o>>
    /\ UNCHANGED <<loggers, fieldMaps, chans, dones, worker, sinks, stderr,
                   calls, processed, closers, proc, nopts, facade>>

\* the option inside its critical section: the write, then l.mu.Unlock()
OptionUnlock ==
    /\ Running /\ pending # NoOption
    /\ LET l == pending[1]
           field == pending[2][1]
           v == pending[2][2]
       IN  /\ loggers' =
                 CASE field = "level" -> [loggers EXCEPT ![l].level = v]
                   [] field = "timeFormat" ->
                        [loggers EXCEPT ![l].timeFormat = v]
                   [] field = "outputs" ->
                        [loggers EXCEPT ![l].outputs =
                            IF v[2]
                            THEN Append(@, [writer |-> v[1], useColor |-> v[3]])
                            ELSE <<[writer |-> v[1], useColor |-> v[3]]>>]
                   [] OTHER -> loggers
           /\ fieldMaps' =
                 IF field = "fields"
                 THEN [fieldMaps EXCEPT ![loggers[l].fields] =
                          Merge(@, fieldMaps[v])]
                 ELSE fieldMaps
           /\ mu' = mu \ {<<l, "option">>}
    /\ pending' = NoOption
    /\ nopts' = nopts + 1
    /\ UNCHANGED <<chans, dones, worker, sinks, stderr, calls, processed,
                   closers, proc, facade>>

(* ------------------------------ With ---------------------------------- *)
\* variant: the new Logger takes the parent's map instead of a copy
WithSharing(l, f) ==
    /\ Running /\ Len(loggers) < 1 + MaxWith
    /\ fieldMaps' = [fieldMaps EXCEPT ![loggers[l].fields] =
                        Merge(@, fieldMaps[f])]
    /\ loggers' = Append(loggers,
            [level |-> loggers[l].level,
             outputs |-> loggers[l].outputs,
             timeFormat |-> loggers[l].timeFormat,
             fields |-> loggers[l].fields,
             logChan |-> loggers[l].logChan,
             done |-> NilChan])
    /\ UNCHANGED <<chans, dones, worker, sinks, stderr, calls, processed,
                   closers, proc, nopts>>
    /\ UNCHANGED <<facade, locks>>

\* make(Fields) gives the new Logger a map of its own, filled with the
\* parent's fields and then with the argument's
With(l, f) ==
    /\ Running /\ Len(loggers) < 1 + MaxWith
    /\ fieldMaps' = Append(fieldMaps,
            Merge(fieldMaps[loggers[l].fields], fieldMaps[f]))
    /\ loggers' = Append(loggers,
            [level |-> loggers[l].level,
             outputs |-> loggers[l].outputs,
             timeFormat |-> loggers[l].timeFormat,
             fields |-> Len(fieldMaps) + 1,
             logChan |-> loggers[l].logChan,
             done |-> NilChan])
    /\ UNCHANGED <<chans, dones, worker, sinks, stderr, calls, processed,
                   closers, proc, nopts>>
    /\ UNCHANGED <<facade, locks>>

(* ------------------------------ log ----------------------------------- *)
\* variant: a full channel gives up its oldest entry to take the new one
SelectSendEvicting(c, e) ==
    IF ChanFull(c)
    THEN /\ stderr' = Append(stderr, e.msg)
         /\ chans' = [chans EXCEPT ![c].buf = Append(Tail(@), e)]
    ELSE /\ chans' = [chans EXCEPT ![c].buf = Append(@, e)]
         /\ UNCHANGED stderr

\* variant: the channel takes the entry whether or not it has room
SelectSendUnbounded(c, e) ==
    /\ chans' = [chans EXCEPT ![c].buf = Append(@, e)]
    /\ UNCHANGED stderr

\* variant: a plain send, which waits until the channel has room
SelectSendWaiting(c, e) ==
    /\ ~ChanFull(c)
    /\ chans' = [chans EXCEPT ![c].buf = Append(@, e)]
    /\ UNCHANGED stderr

\* the select of log: send if there is room, otherwise the default case
SelectSend(c, e) ==
    IF ChanFull(c)
    THEN /\ stderr' = Append(stderr, e.msg)
         /\ UNCHANGED chans
    ELSE /\ chans' = [chans EXCEPT ![c].buf = Append(@, e)]
         /\ UNCHANGED stderr

\* one of Trace, Debug, Info, Warn, Error on Logger l (Fatal and Panic,
\* which end the process after log, are not among the calls made)
Log(l, level, f) ==
    LET c == loggers[l].logChan
        e == [level |-> level, msg |-> Len(calls) + 1, fields |-> f]
        call(r) == [logger |-> l, level |-> level, fields |-> f,
                    lvlAtCall |-> loggers[l].level, result |-> r]
    IN  /\ Running /\ Len(calls) < MaxCalls
        /\ IF chans[c].closed
           THEN \* send on closed channel
                /\ proc' = "panic_send"
                /\ calls' = Append(calls, call("panic"))
                /\ UNCHANGED <<chans, stderr>>
           ELSE /\ SelectSend(c, e)
                /\ calls' = Append(calls,
                        call(IF ChanFull(c) THEN "dropped" ELSE "accepted"))
                /\ UNCHANGED proc
        /\ UNCHANGED <<loggers, fieldMaps, dones, worker, sinks, processed,
                       closers, nopts>>
        /\ UNCHANGED <<facade, locks>>

\* what a caller writes into a Fields map it owns, after having passed it
CallerUpdate == [k \in {"x"} |-> 3]

\* the caller of a leveled call goes on to write a key of the map it passed
CallerWrites(f) ==
    /\ Running
    /\ \E m \in DOMAIN calls : calls[m].fields = f
    /\ fieldMaps[f] # Merge(fieldMaps[f], CallerUpdate)
    /\ fieldMaps' = [fieldMaps EXCEPT ![f] = Merge(@, CallerUpdate)]
    /\ UNCHANGED <<loggers, chans, dones, worker, sinks, stderr, calls,
                   processed, closers, proc, nopts, facade, locks>>

(* ------------------------------ worker -------------------------------- *)
\* for entry := range l.logChan
WorkerRecv(w) ==
    LET c == loggers[w].logChan
    IN  /\ Running /\ worker[w].pc = "recv"
        /\ chans[c].buf # <<>>
        /\ worker' = [worker EXCEPT ![w].pc = "filter", ![w].entry = Recv(c).entry]
        /\ chans' = [chans EXCEPT ![c].buf = Recv(c).rest]
        /\ UNCHANGED <<loggers, fieldMaps, dones, sinks, stderr, calls,
                       processed, closers, proc, nopts>>
        /\ UNCHANGED <<facade, locks>>

\* variant: the level test is made on the level the Logger had at the call
WorkerFilterAtCallLevel(w) ==
    LET e == worker[w].entry
        lv == calls[e.msg].lvlAtCall
    IN  /\ Running /\ worker[w].pc = "filter"
        /\ IF BelowLevel(e, lv)
           THEN /\ worker' = [worker EXCEPT ![w].pc = "recv", ![w].entry = NoEntry]
                /\ processed' = Append(processed,
                        [msg |-> e.msg, level |-> e.level, lvlRead |-> lv,
                         written |-> FALSE, outputs |-> <<>>])
           ELSE /\ worker' = [worker EXCEPT ![w].pc = "snapshot", ![w].lvlRead = lv]
                /\ UNCHANGED processed
        /\ UNCHANGED <<loggers, fieldMaps, chans, dones, sinks, stderr, calls,
                       closers, proc, nopts>>
        /\ UNCHANGED <<facade, locks>>

\* writeLog: the level test, made on l.level without the lock
WorkerFilter(w) ==
    LET e == worker[w].entry
        lv == loggers[w].level
    IN  /\ Running /\ worker[w].pc = "filter"
        /\ IF BelowLevel(e, lv)
           THEN /\ worker' = [worker EXCEPT ![w].pc = "recv", ![w].entry = NoEntry]
                /\ processed' = Append(processed,
                        [msg |-> e.msg, level |-> e.level, lvlRead |-> lv,
                         written |-> FALSE, outputs |-> <<>>])
           ELSE /\ worker' = [worker EXCEPT ![w].pc = "snapshot", ![w].lvlRead = lv]
                /\ UNCHANGED processed
        /\ UNCHANGED <<loggers, fieldMaps, chans, dones, sinks, stderr, calls,
                       closers, proc, nopts>>
        /\ UNCHANGED <<facade, locks>>

\* writeLog: copies of l.fields and l.outputs taken under RLock
WorkerSnapshot(w) ==
    /\ Running /\ worker[w].pc = "snapshot"
    /\ ~WriteLocked(w)
    /\ worker' = [worker EXCEPT ![w].pc = "write",
                                ![w].defaultFields = fieldMaps[loggers[w].fields],
                                ![w].outputs = loggers[w].outputs]
    /\ mu' = RUnlock(RLock(mu, w, "worker"), w, "worker")
    /\ UNCHANGED <<loggers, fieldMaps, chans, dones, sinks, stderr, calls,
                   processed, closers, proc, nopts>>
    /\ UNCHANGED <<facade, pending>>

\* the text writeLog builds: level name, message, time line, then one item
\* for each default field and then one item for each field of the entry
Render(e, timeFormat, defaultFields, dord, eord) ==
    [level |-> LevelString(e.level), msg |-> e.msg, time |-> timeFormat,
     items |-> Items(defaultFields, dord) \o Items(fieldMaps[e.fields], eord)]

\* logLine for one output: wrapped in the level's color when useColor
LogLine(out, e, text) ==
    IF out.useColor
    THEN [prefix |-> colors(e.level), text |-> text, suffix |-> Reset]
    ELSE [prefix |-> "", text |-> text, suffix |-> ""]

\* for _, out := range outputs { fmt.Fprint(out.writer, logLine) }
RECURSIVE FanOut(_, _, _, _)
FanOut(s, outs, e, text) ==
    IF outs = <<>> THEN s
    ELSE FanOut([s EXCEPT ![Head(outs).writer] = Append(@, LogLine(Head(outs), e, text))],
                Tail(outs), e, text)

\* writeLog: render the entry and write it to every output of the snapshot
WorkerWrite(w) ==
    LET e == worker[w].entry
    IN  /\ Running /\ worker[w].pc = "write"
        /\ \E dord \in Orderings(DOMAIN worker[w].defaultFields),
              eord \in Orderings(DOMAIN fieldMaps[e.fields]) :
             sinks' = FanOut(sinks, worker[w].outputs, e,
                        Render(e, loggers[w].timeFormat,
                               worker[w].defaultFields, dord, eord))
        /\ processed' = Append(processed,
                [msg |-> e.msg, level |-> e.level, lvlRead |-> worker[w].lvlRead,
                 written |-> TRUE, outputs |-> worker[w].outputs])
        /\ worker' = [worker EXCEPT ![w].pc = "recv", ![w].entry = NoEntry,
                                    ![w].lvlRead = 0,
                                    ![w].defaultFields = EmptyFields,
                                    ![w].outputs = <<>>]
        /\ UNCHANGED <<loggers, fieldMaps, chans, dones, stderr, calls,
                       closers, proc, nopts>>
        /\ UNCHANGED <<facade, locks>>

\* the range loop ends and the goroutine does close(l.done)
WorkerExit(w) ==
    /\ Running /\ worker[w].pc = "recv"
    /\ RangeEnded(loggers[w].logChan)
    /\ worker' = [worker EXCEPT ![w].pc = "exited"]
    /\ dones' = [dones EXCEPT ![loggers[w].done] = TRUE]
    /\ UNCHANGED <<loggers, fieldMaps, chans, sinks, stderr, calls,
                   processed, closers, proc, nopts>>
    /\ UNCHANGED <<facade, locks>>

(* ------------------------------ Close --------------------------------- *)
\* close(l.logChan); closing a closed channel panics
CloseBegin(l) ==
    LET c == loggers[l].logChan
    IN  /\ Running /\ Len(closers) < MaxCloses
        /\ IF chans[c].closed
           THEN /\ proc' = "panic_close"
                /\ closers' = Append(closers, [logger |-> l, pc |-> "panicked"])
                /\ UNCHANGED chans
           ELSE /\ chans' = [chans EXCEPT ![c].closed = TRUE]
                /\ closers' = Append(closers, [logger |-> l, pc |-> "wait"])
                /\ UNCHANGED proc
        /\ UNCHANGED <<loggers, fieldMaps, dones, worker, sinks, stderr,
                       calls, processed, nopts>>
        /\ UNCHANGED <<facade, locks>>

\* a receive from l.done can proceed: the channel exists and is closed
\* (a receive from a nil channel blocks forever)
DoneReceivable(d) == d # NilChan /\ dones[d]

\* <-l.done, then Close returns
CloseWait(i) ==
    /\ Running /\ closers[i].pc = "wait"
    /\ DoneReceivable(loggers[closers[i].logger].done)
    /\ closers' = [closers EXCEPT ![i].pc = "returned"]
    /\ UNCHANGED <<loggers, fieldMaps, chans, dones, worker, sinks, stderr,
                   calls, processed, proc, nopts>>
    /\ UNCHANGED <<facade, locks>>

(* ------------------------------ package level ------------------------ *)
\* what a worker goroutine holds when it is started
FreshWorker == [pc |-> "recv", entry |-> NoEntry, lvlRead |-> 0,
                defaultFields |-> EmptyFields, outputs |-> <<>>]

\* NewLogger(options...): a new Logger with a map, two channels and a worker
\* of its own; it becomes the last element of loggers
NewLogger(level, f, outs) ==
    /\ fieldMaps' = Append(fieldMaps, f)
    /\ chans' = Append(chans, [buf |-> <<>>, closed |-> FALSE])
    /\ dones' = Append(dones, FALSE)
    /\ loggers' = Append(loggers,
            [level |-> level, outputs |-> outs,
             timeFormat |-> DefaultTimeFormat,
             fields |-> Len(fieldMaps) + 1,
             logChan |-> Len(chans) + 1, done |-> Len(dones) + 1])
    /\ worker' = worker @@ ((Len(loggers) + 1) :> FreshWorker)

\* the outputs NewLogger starts with, and those of Setup's options
DefaultOutputs == <<[writer |-> Stdout, useColor |-> TRUE]>>
SetupOutputs == <<[writer |-> Stdout, useColor |-> TRUE],
                  [writer |-> Capture, useColor |-> FALSE]>>

\* the program before any Logger exists
InitGlobal ==
    /\ fieldMaps = CallerMaps
    /\ loggers = <<>>
    /\ chans = <<>>
    /\ dones = <<>>
    /\ worker = <<>>
    /\ sinks = [w \in Writers |-> <<>>]
    /\ stderr = <<>>
    /\ calls = <<>>
    /\ processed = <<>>
    /\ closers = <<>>
    /\ proc = "running"
    /\ nopts = 0
    /\ defaultLogger = NilLogger
    /\ setup = NoSetup
    /\ gops = [setup |-> 0, setLevel |-> 0]
    /\ lastGet = NoGet
    /\ mu = {}
    /\ pending = NoOption

\* Setup up to close(l.logChan) of the existing Logger's Close, if there is one
SetupBegin ==
    /\ Running /\ setup.pc = "idle" /\ gops.setup < MaxSetups
    /\ gops' = [gops EXCEPT !.setup = @ + 1]
    /\ IF defaultLogger = NilLogger
       THEN /\ setup' = [pc |-> "install", target |-> NilLogger]
            /\ UNCHANGED <<chans, proc>>
       ELSE LET c == loggers[defaultLogger].logChan
            IN  IF chans[c].closed
                THEN /\ proc' = "panic_close"
                     /\ setup' = [pc |-> "panicked", target |-> defaultLogger]
                     /\ UNCHANGED chans
                ELSE /\ chans' = [chans EXCEPT ![c].closed = TRUE]
                     /\ setup' = [pc |-> "wait", target |-> defaultLogger]
                     /\ UNCHANGED proc
    /\ UNCHANGED <<loggers, fieldMaps, dones, worker, sinks, stderr, calls,
                   processed, closers, nopts, defaultLogger, lastGet, locks>>

\* variant: Setup goes on without waiting for the worker of the old Logger
SetupMayInstallAtOnce(l) == TRUE

\* <-l.done of the existing Logger's Close has been received
SetupMayInstall(l) == DoneReceivable(loggers[l].done)

\* Setup: the existing Logger's Close returns
SetupWait ==
    /\ Running /\ setup.pc = "wait"
    /\ SetupMayInstall(setup.target)
    /\ setup' = [setup EXCEPT !.pc = "install"]
    /\ UNCHANGED <<loggers, fieldMaps, chans, dones, worker, sinks, stderr,
                   calls, processed, closers, proc, nopts, defaultLogger,
                   gops, lastGet, locks>>

\* Setup: defaultLogger = NewLogger(options...)
SetupInstall ==
    /\ Running /\ setup.pc = "install"
    /\ \E lv \in InitLevels, f \in InitFields : NewLogger(lv, f, SetupOutputs)
    /\ defaultLogger' = Len(loggers) + 1
    /\ setup' = NoSetup
    /\ UNCHANGED <<sinks, stderr, calls, processed, closers, proc, nopts,
                   gops, lastGet, locks>>

\* SetLevel: defaultLogger = NewLogger(WithLevel(level))
SetLevel(level) ==
    /\ Running /\ gops.setLevel < MaxSetLevels
    /\ NewLogger(level, EmptyFields, DefaultOutputs)
    /\ defaultLogger' = Len(loggers) + 1
    /\ gops' = [gops EXCEPT !.setLevel = @ + 1]
    /\ UNCHANGED <<sinks, stderr, calls, processed, closers, proc, nopts,
                   setup, lastGet, locks>>

\* a method called on the nil defaultLogger: nil pointer dereference
NilDereference ==
    /\ proc' = "panic_nil"
    /\ UNCHANGED <<loggers, fieldMaps, chans, dones, worker, sinks, stderr,
                   calls, processed, closers, nopts, facade, locks>>

\* GetLevel: defaultLogger.level read under defaultLogger.mu.RLock
GetLevel ==
    /\ Running
    /\ IF defaultLogger = NilLogger
       THEN NilDereference
       ELSE /\ ~WriteLocked(defaultLogger)
            /\ lastGet' = loggers[defaultLogger].level
            /\ UNCHANGED <<loggers, fieldMaps, chans, dones, worker, sinks,
                           stderr, calls, processed, closers, proc, nopts,
                           defaultLogger, setup, gops, locks>>

\* the package functions Trace, Debug, Info, Warn, Error
GlobalLog(level, f) ==
    /\ Running /\ Len(calls) < MaxGlobalCalls
    /\ IF defaultLogger = NilLogger
       THEN NilDereference
       ELSE Log(defaultLogger, level, f)

\* the package function Close, up to close(l.logChan)
GlobalClose ==
    /\ Running /\ Len(closers) < MaxCloses
    /\ IF defaultLogger = NilLogger
       THEN NilDereference
       ELSE CloseBegin(defaultLogger)

(* ------------------------------ system -------------------------------- *)
LoggerIds == DOMAIN loggers

\* options applied to a Logger after its construction
Configure ==
    \/ \E l \in LoggerIds, level \in OptLevels : WithLevel(l, level)
    \/ \E l \in LoggerIds, o \in OptOutputs : WithOutput(l, o[1], o[2], o[3])
    \/ \E l \in LoggerIds : WithTimeFormat(l, OtherTimeFormat)
    \/ \E l \in LoggerIds, f \in CallerMapIds : WithFields(l, f)

Derive == \E l \in LoggerIds, f \in CallerMapIds : With(l, f)

Produce == \E l \in LoggerIds, in \in CallInputs : Log(l, in[1], in[2])

\* the steps of the worker before its range loop ends
Handle ==
    \/ \E w \in DOMAIN worker : WorkerRecv(w)
    \/ \E w \in DOMAIN worker : WorkerFilter(w)
    \/ \E w \in DOMAIN worker : WorkerSnapshot(w)
    \/ \E w \in DOMAIN worker : WorkerWrite(w)

Work ==
    \/ Handle
    \/ \E w \in DOMAIN worker : WorkerExit(w)

Shutdown ==
    \/ \E l \in LoggerIds : CloseBegin(l)
    \/ \E i \in DOMAIN closers : CloseWait(i)

Next == Configure \/ Derive \/ Produce \/ Work \/ Shutdown

Spec == Init /\ [][Next]_vars

\* producers, the worker and Close on one Logger, its configuration staying
\* as constructed
NextDrain == Produce \/ Work \/ Shutdown

SpecDrain == Init /\ [][NextDrain]_vars

\* the same with Loggers derived by With
NextQueue ==
    \/ Derive
    \/ (Len(calls) < MaxQueueCalls /\ Produce)
    \/ Work
    \/ Shutdown

SpecQueue == Init /\ [][NextQueue]_vars

\* producers and the worker of one Logger, nobody closing; the goroutine of
\* the worker is scheduled whenever it can take a step
NextDrop == Produce \/ Handle

SpecDrop == Init /\ [][NextDrop]_vars /\ WF_vars(Handle)

\* producers, derived loggers, the worker and the options, nobody closing
NextConfig ==
    \/ Configure
    \/ Derive
    \/ (Len(calls) < MaxConfigCalls /\ Produce)
    \/ Handle

SpecConfig == Init /\ [][NextConfig]_vars

\* producers that go on using the maps they passed, and the worker
NextAlias ==
    \/ (Len(calls) < MaxQueueCalls /\ Produce)
    \/ \E f \in CallerMapIds : CallerWrites(f)
    \/ Handle

SpecAlias == Init /\ [][NextAlias]_vars

\* a producer, the worker and the options of one Logger, each option taking
\* and releasing the Logger's lock in steps of its own
NextLock ==
    \/ \E o \in OptionInputs : OptionLock(Root, o)
    \/ OptionUnlock
    \/ (Len(calls) < MaxLockCalls /\ Produce)
    \/ Handle

SpecLock == Init /\ [][NextLock]_vars

\* the package-level functions called from several goroutines, with the
\* workers of the Loggers they create; Setup is called, if at all, while
\* there is no default Logger yet
NextGlobal ==
    \/ (defaultLogger = NilLogger /\ SetupBegin)
    \/ SetupInstall
    \/ \E level \in OptLevels : SetLevel(level)
    \/ GetLevel
    \/ \E in \in CallInputs : GlobalLog(in[1], in[2])
    \/ GlobalClose
    \/ \E i \in DOMAIN closers : CloseWait(i)
    \/ Work

SpecGlobal == InitGlobal /\ [][NextGlobal]_vars

\* Setup called again and again while other goroutines log through the
\* package functions and close the default Logger
NextSetup ==
    \/ SetupBegin
    \/ SetupWait
    \/ SetupInstall
    \/ \E in \in CallInputs : GlobalLog(in[1], in[2])
    \/ (Len(closers) < MaxGlobalCloses /\ GlobalClose)
    \/ \E i \in DOMAIN closers : CloseWait(i)
    \/ Work

SpecSetup == InitGlobal /\ [][NextSetup]_vars

TypeOK ==
    /\ proc \in {"running", "panic_send", "panic_close", "panic_nil"}
    /\ \A c \in DOMAIN chans : Len(chans[c].buf) <= ChanCap

(* ------------------------------ histories ----------------------------- *)
\* the calls whose entry the channel took
Accepted == {m \in DOMAIN calls : calls[m].result = "accepted"}
Dropped == {m \in DOMAIN calls : calls[m].result = "dropped"}

\* writer w has received a line for the entry of call m
WrittenTo(w, m) == \E i \in DOMAIN sinks[w] : sinks[w][i].text.msg = m

\* writeLog has finished with the entry of call m; if the entry passed the
\* level test, every output of the snapshot has received its line
Handled(m) ==
    \E j \in DOMAIN processed :
        /\ processed[j].msg = m
        /\ processed[j].written = (processed[j].level >= processed[j].lvlRead)
        /\ processed[j].written =>
              \A k \in DOMAIN processed[j].outputs :
                  WrittenTo(processed[j].outputs[k].writer, m)

\* the entry of call m is still in the channel or in the hands of the worker
Pending(m) ==
    \/ \E c \in DOMAIN chans : \E i \in DOMAIN chans[c].buf :
          chans[c].buf[i].msg = m
    \/ \E w \in DOMAIN worker : worker[w].entry.msg = m

(* ------------------------------ C1 ------------------------------------ *)
\* C1: when a Close call has returned, every entry accepted into the queue
\* has been handled by the worker (written to every output if it passed the
\* level test) and none is still pending.
C1_CloseDrains ==
    \A i \in DOMAIN closers :
        closers[i].pc = "returned" =>
            \A m \in Accepted : Handled(m) /\ ~Pending(m)

\* a Close has returned after several entries were accepted, one of them
\* written and one of them filtered
C1_Witness ==
    /\ \E i \in DOMAIN closers : closers[i].pc = "returned"
    /\ Cardinality(Accepted) >= 3
    /\ \E j \in DOMAIN processed : processed[j].written
    /\ \E j \in DOMAIN processed : ~processed[j].written

(* ------------------------------ C2 ------------------------------------ *)
\* C2: the worker handles the accepted entries in the order in which they
\* were accepted: the entries it has finished with, the one it holds and the
\* ones still buffered follow each other in the order of the calls, and each
\* writer receives its lines in that order.
C2_Fifo ==
    /\ \A i, j \in DOMAIN processed :
          i < j => processed[i].msg < processed[j].msg
    /\ \A w \in DOMAIN worker, j \in DOMAIN processed :
          worker[w].pc \notin {"recv", "exited"} =>
              processed[j].msg < worker[w].entry.msg
    /\ \A c \in DOMAIN chans : \A i \in DOMAIN chans[c].buf :
          /\ \A j \in DOMAIN processed : processed[j].msg < chans[c].buf[i].msg
          /\ \A w \in DOMAIN worker :
                worker[w].pc \notin {"recv", "exited"} =>
                    worker[w].entry.msg < chans[c].buf[i].msg
    /\ \A w \in Writers : \A i, j \in DOMAIN sinks[w] :
          i < j => sinks[w][i].text.msg <= sinks[w][j].text.msg

\* three entries that were accepted one after the other have all been written
C2_Witness ==
    Cardinality({sinks[Capture][i].text.msg : i \in DOMAIN sinks[Capture]}) >= 3

(* ------------------------------ C3 ------------------------------------ *)
\* C3: on a Logger whose channel is open a leveled call can always take its
\* step, whatever the worker is doing and however many entries are buffered;
\* made with the channel full it leaves the channel as it was, and its entry
\* is dropped with a diagnostic.
C3_LogNeverBlocks ==
    /\ [](\A l \in LoggerIds, in \in CallInputs :
            (Running /\ Len(calls) < MaxCalls /\ ~chans[loggers[l].logChan].closed)
                => ENABLED Log(l, in[1], in[2]))
    /\ [][Len(calls') = Len(calls) + 1 =>
            LET m == Len(calls')
                c == loggers[calls'[m].logger].logChan
            IN  ~chans[c].closed =>
                    IF ChanFull(c)
                    THEN /\ calls'[m].result = "dropped"
                         /\ chans' = chans
                         /\ stderr' = Append(stderr, m)
                    ELSE /\ calls'[m].result = "accepted"
                         /\ stderr' = stderr]_vars

\* a call has returned with a drop while the worker was inside writeLog
C3_Witness ==
    /\ Dropped # {}
    /\ \E w \in DOMAIN worker : worker[w].pc = "write"
    /\ \E c \in DOMAIN chans : ChanFull(c)

(* ------------------------------ C4 ------------------------------------ *)
\* C4: a call made while the channel is full is dropped and its diagnostic
\* written to stderr in the same step; a dropped entry is in no channel, is
\* never handed to the worker and reaches no writer; and every entry that was
\* accepted is eventually handled by the worker (written to every output if
\* it passes the level test), once the worker gets to run.
C4_DropOnFull ==
    /\ [][Len(calls') = Len(calls) + 1 =>
            LET m == Len(calls')
            IN  ChanFull(loggers[calls'[m].logger].logChan) =>
                    /\ calls'[m].result = "dropped"
                    /\ stderr' = Append(stderr, m)]_vars
    /\ [](\A m \in Dropped :
            /\ \E i \in DOMAIN stderr : stderr[i] = m
            /\ ~Pending(m)
            /\ \A j \in DOMAIN processed : processed[j].msg # m
            /\ \A w \in Writers : ~WrittenTo(w, m))
    /\ \A m \in 1..MaxCalls : (m \in Accepted) ~> Handled(m)

\* a call was dropped after the channel had filled up behind an entry the
\* worker held, and all the entries accepted before it have been handled
C4_Witness ==
    \E d \in Dropped :
        /\ Cardinality({m \in Accepted : m < d}) > ChanCap
        /\ \A m \in Accepted : Handled(m)
        /\ \E w \in Writers : \E m \in Accepted : WrittenTo(w, m)

(* ------------------------------ C5 ------------------------------------ *)
\* C5 as claimed: an entry is written exactly when its level is at or above
\* the level the Logger it was submitted through had when the method was
\* called.
C5_FilterAtCall ==
    \A j \in DOMAIN processed :
        processed[j].written =
            (processed[j].level >= calls[processed[j].msg].lvlAtCall)

\* C5 as amended: the worker tests each entry it has dequeued against the
\* level its own Logger has at that moment; an entry below that level reaches
\* no writer, an entry at or above it is written to every output of the
\* worker's snapshot, and no writer holds a line of an entry that did not
\* pass the test.
C5_FilterAtDequeue ==
    /\ [][\A w \in DOMAIN worker :
            (worker[w].pc = "filter" /\ worker'[w].pc # "filter") =>
                /\ (worker'[w].pc = "recv") =
                        (worker[w].entry.level < loggers[w].level)
                /\ (worker'[w].pc = "snapshot") =
                        (worker[w].entry.level >= loggers[w].level)
                /\ sinks' = sinks]_vars
    /\ [](\A j \in DOMAIN processed :
            /\ processed[j].written = (processed[j].level >= processed[j].lvlRead)
            /\ processed[j].written =>
                  \A k \in DOMAIN processed[j].outputs :
                      WrittenTo(processed[j].outputs[k].writer, processed[j].msg)
            /\ ~processed[j].written =>
                  \A w \in Writers : ~WrittenTo(w, processed[j].msg))
    /\ [](\A w \in Writers : \A i \in DOMAIN sinks[w] :
            \E j \in DOMAIN processed :
                /\ processed[j].msg = sinks[w][i].text.msg
                /\ processed[j].written)

\* an entry submitted below the level then in force was written to both
\* writers, the level having been lowered before the worker tested it
C5_Witness ==
    \E j \in DOMAIN processed :
        /\ processed[j].written
        /\ processed[j].level < calls[processed[j].msg].lvlAtCall
        /\ processed[j].level >= processed[j].lvlRead
        /\ \A w \in Writers : WrittenTo(w, processed[j].msg)

(* ------------------------------ C6 ------------------------------------ *)
\* C6: every line written shows each key once, and shows every key of the
\* entry's per-call fields with the per-call value.
C6_PerCallOverridesDefault ==
    \A w \in Writers : \A i \in DOMAIN sinks[w] :
        LET items == sinks[w][i].text.items
            percall == fieldMaps[calls[sinks[w][i].text.msg].fields]
        IN  /\ \A a, b \in DOMAIN items : items[a][1] = items[b][1] => a = b
            /\ \A k \in DOMAIN percall :
                  \E a \in DOMAIN items : items[a] = <<k, percall[k]>>

(* ------------------------------ C7 ------------------------------------ *)
\* the default fields as seen through Logger l
FieldsOf(l) == fieldMaps[loggers[l].fields]

C8_CloseReturnsOnAnyView ==
    \A i \in DOMAIN closers :
        (Running /\ closers[i].pc = "wait"
            /\ \A w \in DOMAIN worker :
                  loggers[w].logChan = loggers[closers[i].logger].logChan
                      => worker[w].pc = "exited")
            => ENABLED CloseWait(i)

(* ------------------------------ C9 ------------------------------------ *)
\* C9: the default fields the worker snapshots for an entry are those of the
\* Logger the entry was submitted through.
C9_DerivedDefaultsRendered ==
    [][\A w \in DOMAIN worker :
          (worker[w].pc = "snapshot" /\ worker'[w].pc = "write") =>
              worker'[w].defaultFields =
                  FieldsOf(calls[worker[w].entry.msg].logger)]_vars

(* ------------------------------ C10 ----------------------------------- *)
\* C10: no Close call panics, and one made on a queue that is already closed
\* does not hang.
C10_DoubleCloseSafe ==
    \A i \in DOMAIN closers : closers[i].pc # "panicked"

(* ------------------------------ C11 ----------------------------------- *)
\* C11: a leveled call made on a Logger whose channel has been closed returns
\* to its caller: the process keeps running, the channel takes no entry, and
\* the call is recorded neither as accepted nor as a panic.
C11_RejectAfterClose ==
    [][Len(calls') = Len(calls) + 1 =>
          LET m == Len(calls')
              c == loggers[calls'[m].logger].logChan
          IN  chans[c].closed =>
                  /\ proc' = "running"
                  /\ chans' = chans
                  /\ calls'[m].result \notin {"accepted", "panic"}]_vars

(* ------------------------------ C12 ----------------------------------- *)
\* C12: when Setup installs its new Logger, the Logger that was the default
\* when Setup was called has its channel closed and drained and its worker
\* terminated, and every entry it had accepted has been handled; the Logger
\* installed is a new one with an open, empty channel and a worker about to
\* receive; and every package-level leveled call is submitted to the Logger
\* that is the default when the call is made.
C12_SetupReplaces ==
    /\ [][(setup.pc = "install" /\ setup'.pc = "idle") =>
            /\ setup.target # NilLogger =>
                  /\ RangeEnded(loggers[setup.target].logChan)
                  /\ worker[setup.target].pc = "exited"
                  /\ \A m \in Accepted :
                        calls[m].logger = setup.target =>
                            Handled(m) /\ ~Pending(m)
            /\ defaultLogger' \notin DOMAIN loggers
            /\ defaultLogger' \in DOMAIN loggers'
            /\ chans'[loggers'[defaultLogger'].logChan] =
                  [buf |-> <<>>, closed |-> FALSE]
            /\ worker'[defaultLogger'].pc = "recv"]_vars
    /\ [][Len(calls') = Len(calls) + 1 =>
            LET m == Len(calls')
            IN  /\ calls'[m].logger = defaultLogger
                /\ calls'[m].result = "accepted" =>
                      \E i \in DOMAIN chans'[loggers[defaultLogger].logChan].buf :
                          chans'[loggers[defaultLogger].logChan].buf[i].msg = m]_vars

\* a second Setup has returned: the Logger it replaced had accepted an entry,
\* which its worker handled before terminating, and the new default Logger
\* has accepted an entry since
C12_Witness ==
    /\ gops.setup >= 2 /\ setup.pc = "idle" /\ defaultLogger # NilLogger
    /\ \E m \in Accepted :
          /\ calls[m].logger # defaultLogger
          /\ Handled(m)
          /\ worker[calls[m].logger].pc = "exited"
    /\ \E m \in Accepted : calls[m].logger = defaultLogger

(* ------------------------------ C13 ----------------------------------- *)
\* C13: while a Setup call is replacing the default Logger, a package-level
\* call made from another goroutine neither finds defaultLogger nil nor is
\* submitted to a Logger whose channel that Setup has closed.
C13_SwapSynchronized ==
    [][setup.pc \in {"wait", "install"} =>
          /\ proc' # "panic_nil"
          /\ Len(calls') = Len(calls) + 1 =>
                ~(/\ calls'[Len(calls')].logger = setup.target
                  /\ chans[loggers[setup.target].logChan].closed)]_vars

(* ------------------------------ C14 ----------------------------------- *)
\* C14: as long as Setup has not been called, no package-level leveled call,
\* GetLevel or Close ends in a nil pointer dereference.
C14_LazyDefault ==
    gops.setup = 0 => proc # "panic_nil"

(* ------------------------------ C15 ----------------------------------- *)
\* C15: a SetLevel call made while there is a default Logger leaves
\* defaultLogger referring to the same Logger and changes nothing of it but
\* its level: its outputs, time format, default fields, channels and worker,
\* and the entries buffered in its channel, are as before the call.
C15_SetLevelWritesLevelOnly ==
    [][(gops'.setLevel = gops.setLevel + 1 /\ defaultLogger # NilLogger) =>
          LET d == defaultLogger
          IN  /\ defaultLogger' = d
              /\ loggers' = [loggers EXCEPT ![d].level = loggers'[d].level]
              /\ fieldMaps'[loggers'[d].fields] = FieldsOf(d)
              /\ chans' = chans
              /\ dones' = dones
              /\ worker' = worker]_vars

(* ------------------------------ C16 ----------------------------------- *)
\* the fields of the configuration writeLog reads at each of its steps
ReadsAt(pc) ==
    CASE pc = "filter" -> {"level"}
      [] pc = "snapshot" -> {"fields", "outputs"}
      [] pc = "write" -> {"timeFormat"}
      [] OTHER -> {}

\* C16: while an option is inside its critical section, about to write a
\* field of the Logger's configuration, the worker does not take the step of
\* writeLog that reads that field.
C16_ConfigReadsLocked ==
    [][\A w \in DOMAIN worker :
          (/\ WriteLocked(w)
           /\ pending[1] = w
           /\ pending[2][1] \in ReadsAt(worker[w].pc))
              => worker'[w] = worker[w]]_vars

(* ------------------------------ C17 ----------------------------------- *)
\* C17: while the worker is at the writes to the outputs it holds no lock of
\* the Logger: an option can take the lock and, once inside, make its write
\* and release it, and a leveled call on the open channel can take its step,
\* none of them waiting for the worker.
C17_NoLockAcrossWrite ==
    \A w \in DOMAIN worker :
        (Running /\ worker[w].pc = "write") =>
            /\ ~ReadLocked(w)
            /\ (nopts < MaxOptions /\ pending = NoOption) =>
                  \A o \in OptionInputs : ENABLED OptionLock(w, o)
            /\ pending # NoOption => ENABLED OptionUnlock
            /\ (Len(calls) < MaxCalls /\ ~chans[loggers[w].logChan].closed) =>
                  \A in \in CallInputs : ENABLED Log(w, in[1], in[2])

\* the worker is at the writes of one entry while an option is inside its
\* critical section and a second entry, accepted since the worker took the
\* first, waits in the channel
C17_Witness ==
    \E w \in DOMAIN worker :
        /\ worker[w].pc = "write"
        /\ pending # NoOption /\ pending[1] = w
        /\ \E m \in Accepted : m > worker[w].entry.msg

(* ------------------------------ C18 ----------------------------------- *)
\* C18: what the worker does with an entry it has dequeued follows the
\* configuration its Logger has when writeLog reads it, whatever it was when
\* the entry was accepted: the level recorded for the test is the Logger's
\* level at the step of the test, the snapshot holds the Logger's default
\* fields and outputs at the step of the snapshot, every line written shows
\* the Logger's time format at the step of the write; and an entry whose
\* level is below the level read is written nowhere, even if the level in
\* force when it was accepted admitted it.
C18_RenderTimeConfig ==
    /\ [][\A w \in DOMAIN worker :
            /\ (worker[w].pc = "filter" /\ worker'[w].pc = "snapshot") =>
                  worker'[w].lvlRead = loggers[w].level
            /\ (worker[w].pc = "filter" /\ worker'[w].pc = "recv") =>
                  processed'[Len(processed')].lvlRead = loggers[w].level
            /\ (worker[w].pc = "snapshot" /\ worker'[w].pc = "write") =>
                  /\ worker'[w].defaultFields = FieldsOf(w)
                  /\ worker'[w].outputs = loggers[w].outputs
            /\ (worker[w].pc = "write" /\ worker'[w].pc = "recv") =>
                  \A x \in Writers :
                      \A i \in (DOMAIN sinks'[x]) \ (DOMAIN sinks[x]) :
                          sinks'[x][i].text.time = loggers[w].timeFormat]_vars
    /\ [](\A j \in DOMAIN processed :
            processed[j].level < processed[j].lvlRead =>
                /\ ~processed[j].written
                /\ \A x \in Writers : ~WrittenTo(x, processed[j].msg))

\* an entry accepted while the level admitted it reached no writer, the level
\* having been raised above it before the worker tested it
C18_Witness ==
    \E j \in DOMAIN processed :
        /\ calls[processed[j].msg].result = "accepted"
        /\ processed[j].level >= calls[processed[j].msg].lvlAtCall
        /\ processed[j].level < processed[j].lvlRead
        /\ ~processed[j].written
        /\ \A x \in Writers : ~WrittenTo(x, processed[j].msg)

(* ------------------------------ C19 ----------------------------------- *)
\* the Fields maps of the entries that are buffered or in the worker's hands
PendingFields ==
    UNION {{chans[c].buf[i].fields : i \in DOMAIN chans[c].buf} :
                c \in DOMAIN chans}
        \cup {worker[w].entry.fields :
                w \in {x \in DOMAIN worker : worker[x].entry # NoEntry}}

\* C19: the per-call fields of an entry stay as they were when the call was
\* made: no step changes the fields of an entry that is buffered or in the
\* worker's hands, so that what the worker reads when it renders the entry is
\* what the caller passed.
C19_EntryFieldsSnapshot ==
    [][\A f \in PendingFields : fieldMaps'[f] = fieldMaps[f]]_vars

(* ------------------------------ C20 ----------------------------------- *)
\* the accepted calls on channel c whose entry the worker has not received
NotDequeued(c) ==
    {m \in Accepted :
        /\ loggers[calls[m].logger].logChan = c
        /\ \A j \in DOMAIN processed : processed[j].msg # m
        /\ \A w \in DOMAIN worker : worker[w].entry.msg # m}

\* C20: for every channel, the accepted entries the worker has not yet
\* received are exactly the entries buffered in the channel, and there are at
\* most as many of them as the channel's capacity, through however many
\* Loggers they were submitted.
C20_BoundedQueue ==
    \A c \in DOMAIN chans :
        /\ Len(chans[c].buf) <= ChanCap
        /\ NotDequeued(c) = {chans[c].buf[i].msg : i \in DOMAIN chans[c].buf}
        /\ Cardinality(NotDequeued(c)) = Len(chans[c].buf)

\* the channel is full of entries submitted through two Loggers, and a
\* further call has been dropped
C20_Witness ==
    \E c \in DOMAIN chans :
        /\ Len(chans[c].buf) = ChanCap
        /\ \E i, j \in DOMAIN chans[c].buf :
              calls[chans[c].buf[i].msg].logger # calls[chans[c].buf[j].msg].logger
        /\ Dropped # {}
====
